---- MODULE Spec2Model ----
(***************************************************************************)
(* Direct multiple shooting transcription of docs/tutorials/python/src/    *)
(* modelica/modelica_ms.py, statement by statement.                        *)
(*                                                                         *)
(* The script is one sequential program.  Its state is the set of Python   *)
(* names it binds (dt, h, xkj, xkj_L, integrator, v, lbv, ubv, v0, nv,     *)
(* vind, J, eq, ...), plus the position pc of the statement to run next.   *)
(* CasADi MX expressions are modelled as the expression trees the script   *)
(* builds: tagged tuples <<"add", a, b>>, <<"call", fn, args, out>>, ...   *)
(*                                                                         *)
(* The sizes nx, nu of the imported model (lines 49-50), the size nI of    *)
(* its initial equations (line 53) and the literals nk (line 106) and nj   *)
(* (line 138) are the configuration of the script; Init draws them from    *)
(* bounded sets.                                                           *)
(***************************************************************************)
EXTENDS Integers, Sequences, FiniteSets, TLC

\* ------------------------------------------------------------------ bounds
MaxNk == 3
MaxNj == 2
MaxNx == 3
MaxNu == 2
MaxSeed == 1

\* ------------------------------------------------------- program constants
tf == 150

VARIABLES pc, err, nk, nj, nx, nu, nI, dt, h, xkj, xkj_L, j, odeCalls,
          integrator, builds, xk, uk, v, lbv, ubv, v0, nv, vind, k, J, eq,
          calls, g, lbg, ubg, v_opt, x0_opt, x1_opt, u_opt

vars == <<pc, err, nk, nj, nx, nu, nI, dt, h, xkj, xkj_L, j, odeCalls,
          integrator, builds, xk, uk, v, lbv, ubv, v0, nv, vind, k, J, eq,
          calls, g, lbg, ubg, v_opt, x0_opt, x1_opt, u_opt>>

cfgVars == <<nk, nj, nx, nu, nI>>
rkVars == <<h, xkj, xkj_L, j, odeCalls>>
layoutVars == <<xk, uk, v, lbv, ubv, v0, nv, vind>>
shootVars == <<J, eq, calls>>
nlpVars == <<g, lbg, ubg>>
solVars == <<v_opt, x0_opt, x1_opt, u_opt>>

\* ------------------------------------------------------ expression trees
Num(n) == <<"num", n>>
Sym(name, i) == <<"sym", name, i>>
Add(a, b) == <<"add", a, b>>
Sub(a, b) == <<"sub", a, b>>
Mul(a, b) == <<"mul", a, b>>
Div(a, b) == <<"div", a, b>>
\* output number out of the call fn(args)
Call(fn, args, out) == <<"call", fn, args, out>>

\* a name that is not bound yet
Unbound == <<>>
NoFunction == [in |-> <<>>, out |-> <<>>]
NoVind == [x |-> <<>>, u |-> <<>>]

\* the symbols MX.sym("xk",nx), MX.sym("uk",nu) of lines 139-140
xkSym == Sym("xk", 0)
ukSym == Sym("uk", 0)

\* the model data of lines 68-73, one distinguishable value per component
ModelVec(name, n) == [i \in 1..n |-> <<name, i - 1>>]
lbx == ModelVec("lbx", nx)
ubx == ModelVec("ubx", nx)
lbu == ModelVec("lbu", nu)
ubu == ModelVec("ubu", nu)
x0 == ModelVec("x0", nx)
u0 == ModelVec("u0", nu)

\* ode_fcn([x,u]) -> [f, L]   (lines 91-93, 100-101)
ode_fcn(x, u) == <<Call("ode_fcn", <<x, u>>, 0), Call("ode_fcn", <<x, u>>, 1)>>
\* init_fcn([x]) -> [I]   (lines 95-97, 102-103)
init_fcn(x) == <<Call("init_fcn", <<x>>, 0)>>

\* one pass of the loop body of lines 143-148 from state x, accumulator l
\* with control u and step hh: <<new x, new l, the four ode_fcn arguments>>
RK4Body(x, l, u, hh) ==
    LET a1 == x
        k1 == ode_fcn(a1, u)
        a2 == Add(x, Mul(Div(hh, Num(2)), k1[1]))
        k2 == ode_fcn(a2, u)
        a3 == Add(x, Mul(Div(hh, Num(2)), k2[1]))
        k3 == ode_fcn(a3, u)
        a4 == Add(x, Mul(hh, k3[1]))
        k4 == ode_fcn(a4, u)
        comb(i) == Add(Add(Add(k1[i], Mul(Num(2), k2[i])),
                           Mul(Num(2), k3[i])), k4[i])
    IN  [x |-> Add(x, Mul(Div(hh, Num(6)), comb(1))),
         l |-> Add(l, Mul(Div(hh, Num(6)), comb(2))),
         args |-> << <<a1, u>>, <<a2, u>>, <<a3, u>>, <<a4, u>> >>]

\* ------------------------------------------------------------------ Init
Init ==
    /\ pc = "l106"
    /\ err = "none"
    /\ nk \in 0..MaxNk
    /\ nj \in 0..MaxNj
    /\ nx \in 1..MaxNx
    /\ nu \in 1..MaxNu
    /\ nI \in 1..MaxNx
    /\ dt = Unbound /\ h = Unbound
    /\ xkj = Unbound /\ xkj_L = Unbound /\ j = 0 /\ odeCalls = <<>>
    /\ integrator = NoFunction /\ builds = 0
    /\ xk = <<>> /\ uk = <<>>
    /\ v = <<>> /\ lbv = <<>> /\ ubv = <<>> /\ v0 = <<>> /\ nv = 0
    /\ vind = NoVind
    /\ k = 0 /\ J = Unbound /\ eq = <<>> /\ calls = <<>>
    /\ g = <<>> /\ lbg = <<>> /\ ubg = <<>>
    /\ v_opt = <<>> /\ x0_opt = <<>> /\ x1_opt = <<>> /\ u_opt = <<>>

\* an uncaught Python exception ends the script
Raise(e) == pc' = "error" /\ err' = e

\* variant of SetDt: the division by nk = 0 yields a value instead of raising
SetDtNoRaise ==
    /\ pc = "l106"
    /\ dt' = Div(Num(tf), Num(nk))
    /\ pc' = "l136"
    /\ UNCHANGED <<err, cfgVars, rkVars, integrator, builds, layoutVars, k,
                   shootVars, nlpVars, solVars>>

\* lines 106-107: nk = 20; dt = tf/nk   (tf is the float 150.)
SetDt ==
    /\ pc = "l106"
    /\ IF nk = 0
         THEN Raise("ZeroDivisionError") /\ UNCHANGED dt
         ELSE dt' = Div(Num(tf), Num(nk)) /\ pc' = "l136" /\ UNCHANGED err
    /\ UNCHANGED <<cfgVars, rkVars, integrator, builds, layoutVars, k,
                   shootVars, nlpVars, solVars>>

\* lines 136-141: nj = 10; h = dt/nj; xkj = xk; xkj_L = 0
IntegratorInit ==
    /\ pc = "l136"
    /\ IF nj = 0
         THEN Raise("ZeroDivisionError") /\ UNCHANGED <<h, xkj, xkj_L>>
         ELSE /\ h' = Div(dt, Num(nj))
              /\ xkj' = xkSym
              /\ xkj_L' = Num(0)
              /\ pc' = "rk"
              /\ UNCHANGED err
    /\ j' = 0
    /\ UNCHANGED <<cfgVars, dt, odeCalls, integrator, builds, layoutVars, k,
                   shootVars, nlpVars, solVars>>

\* variant of RKStep: every sub-step starts again from x_start
RKStepFromStart ==
    /\ pc = "rk"
    /\ j < nj
    /\ LET r == RK4Body(xkSym, xkj_L, ukSym, h)
       IN  /\ xkj' = r.x
           /\ xkj_L' = r.l
           /\ odeCalls' = odeCalls \o r.args
    /\ j' = j + 1
    /\ UNCHANGED <<pc, err, cfgVars, dt, h, integrator, builds, layoutVars, k,
                   shootVars, nlpVars, solVars>>

\* lines 142-148: one iteration of  for j in range(nj)
RKStep ==
    /\ pc = "rk"
    /\ j < nj
    /\ LET r == RK4Body(xkj, xkj_L, ukSym, h)
       IN  /\ xkj' = r.x
           /\ xkj_L' = r.l
           /\ odeCalls' = odeCalls \o r.args
    /\ j' = j + 1
    /\ UNCHANGED <<pc, err, cfgVars, dt, h, integrator, builds, layoutVars, k,
                   shootVars, nlpVars, solVars>>

\* lines 149-151: integrator = MXFunction([xk,uk],[xkj,xkj_L])
BuildIntegrator ==
    /\ pc = "rk"
    /\ j = nj
    /\ integrator' = [in |-> <<xkSym, ukSym>>, out |-> <<xkj, xkj_L>>]
    /\ builds' = builds + 1
    /\ pc' = "l167"
    /\ UNCHANGED <<err, cfgVars, dt, rkVars, layoutVars, k, shootVars,
                   nlpVars, solVars>>

\* Python's range(a, b) as a list of positions
Range(a, b) == [i \in 1..(b - a) |-> a + i - 1]

\* variant of valloc: the next free position is one short
vallocOffByOne(n, nvv) == <<Range(nvv, nvv + n), nvv + n - 1>>

\* line 175: def valloc(n, nv): return range(nv, nv+n), nv+n
valloc(n, nvv) == <<Range(nvv, nvv + n), nvv + n>>

\* an MX block: an expression e of n rows
MX(e, n) == [e |-> e, n |-> n]

\* vertcat of a list of numeric vectors: their concatenation
RECURSIVE vertcat(_)
vertcat(blocks) ==
    IF blocks = <<>> THEN <<>>
    ELSE vertcat(SubSeq(blocks, 1, Len(blocks) - 1)) \o blocks[Len(blocks)]

\* the rows of one MX block
Rows(b) == [i \in 1..b.n |-> <<b.e, i - 1>>]

\* vertcat of a list of MX blocks: one row per scalar entry
vertcatMX(blocks) == vertcat([i \in 1..Len(blocks) |-> Rows(blocks[i])])

\* element at (0-based) position p of a vector
At(vec, p) == vec[p + 1]

\* lines 167-174: the symbols of the NLP and the empty layout
Declare ==
    /\ pc = "l167"
    /\ xk' = [i \in 1..(nk + 1) |-> Sym("x", i - 1)]
    /\ uk' = [i \in 1..nk |-> Sym("u", i - 1)]
    /\ v' = <<>> /\ lbv' = <<>> /\ ubv' = <<>> /\ v0' = <<>>
    /\ nv' = 0
    /\ vind' = NoVind
    /\ k' = 0
    /\ pc' = "layout"
    /\ UNCHANGED <<err, cfgVars, dt, rkVars, integrator, builds, shootVars,
                   nlpVars, solVars>>

\* lines 176-182: one iteration of the layout loop, interval k
LayoutStep ==
    /\ pc = "layout"
    /\ k < nk
    /\ LET sx == valloc(nx, nv)
           su == valloc(nu, sx[2])
       IN  /\ v' = v \o <<MX(xk[k + 1], nx), MX(uk[k + 1], nu)>>
           /\ lbv' = lbv \o <<lbx, lbu>>
           /\ ubv' = ubv \o <<ubx, ubu>>
           /\ v0' = v0 \o <<x0, u0>>
           /\ vind' = [x |-> Append(vind.x, sx[1]), u |-> Append(vind.u, su[1])]
           /\ nv' = su[2]
    /\ k' = k + 1
    /\ UNCHANGED <<pc, err, cfgVars, dt, rkVars, integrator, builds, xk, uk,
                   shootVars, nlpVars, solVars>>

\* variant of LayoutEnd: the trailing block takes the control bounds and guess
LayoutEndControlBounds ==
    /\ pc = "layout"
    /\ k = nk
    /\ LET sx == valloc(nx, nv)
       IN  /\ v' = Append(v, MX(xk[Len(xk)], nx))
           /\ lbv' = Append(lbv, lbu)
           /\ ubv' = Append(ubv, ubu)
           /\ v0' = Append(v0, u0)
           /\ vind' = [vind EXCEPT !.x = Append(vind.x, sx[1])]
           /\ nv' = sx[2]
    /\ pc' = "l187"
    /\ UNCHANGED <<err, cfgVars, dt, rkVars, integrator, builds, xk, uk, k,
                   shootVars, nlpVars, solVars>>

\* lines 184-185: the state at the end, xk[-1]
LayoutEnd ==
    /\ pc = "layout"
    /\ k = nk
    /\ LET sx == valloc(nx, nv)
       IN  /\ v' = Append(v, MX(xk[Len(xk)], nx))
           /\ lbv' = Append(lbv, lbx)
           /\ ubv' = Append(ubv, ubx)
           /\ v0' = Append(v0, x0)
           /\ vind' = [vind EXCEPT !.x = Append(vind.x, sx[1])]
           /\ nv' = sx[2]
    /\ pc' = "l187"
    /\ UNCHANGED <<err, cfgVars, dt, rkVars, integrator, builds, xk, uk, k,
                   shootVars, nlpVars, solVars>>

\* line 187: concatenate the lists
Concatenate ==
    /\ pc = "l187"
    /\ v' = vertcatMX(v)
    /\ lbv' = vertcat(lbv)
    /\ ubv' = vertcat(ubv)
    /\ v0' = vertcat(v0)
    /\ pc' = "l190"
    /\ UNCHANGED <<err, cfgVars, dt, rkVars, integrator, builds, xk, uk, nv,
                   vind, k, shootVars, nlpVars, solVars>>

\* lines 190-194: J = 0; eq = []; [eq0] = init_fcn([xk[0]]); eq.append(eq0)
InitialCondition ==
    /\ pc = "l190"
    /\ J' = Num(0)
    /\ eq' = <<MX(init_fcn(xk[1])[1], nI)>>
    /\ k' = 0
    /\ pc' = "shoot"
    /\ UNCHANGED <<err, cfgVars, dt, rkVars, integrator, builds, layoutVars,
                   calls, nlpVars, solVars>>

\* the two outputs of integrator([x, u])
integratorCall(x, u) ==
    <<Call("integrator", <<x, u>>, 0), Call("integrator", <<x, u>>, 1)>>

\* the shooting step with its parts as parameters: the block compared with
\* x_end, whether the constraint is appended, whether the cost is added, and
\* how many integrators are constructed in the step
ShootVariant(other, appendIt, addCost, rebuilt) ==
    /\ pc = "shoot"
    /\ k < nk
    /\ LET r == integratorCall(xk[k + 1], uk[k + 1])
           xk_end == r[1]
           Jk == r[2]
       IN  /\ J' = IF addCost THEN Add(J, Jk) ELSE J
           /\ eq' = IF appendIt
                      THEN Append(eq, MX(Sub(xk_end, xk[other]), nx))
                      ELSE eq
           /\ calls' = Append(calls, [fn |-> integrator,
                                      args |-> <<xk[k + 1], uk[k + 1]>>])
    /\ k' = k + 1
    /\ builds' = builds + rebuilt
    /\ UNCHANGED <<pc, err, cfgVars, dt, rkVars, integrator, layoutVars,
                   nlpVars, solVars>>

\* variant of ShootStep: x_end is compared with the interval's own start block
ShootStepWrongBlock == ShootVariant(k + 1, k + 1 < nk, TRUE, 0)
\* variant of ShootStep: the continuity constraint is appended for every k
ShootStepNoGuard == ShootVariant(k + 2, TRUE, TRUE, 0)
\* variant of ShootStep: the cost is added under the same test as the constraint
ShootStepCostGuarded == ShootVariant(k + 2, k + 1 < nk, k + 1 < nk, 0)
\* variant of ShootStep: the integrator is constructed again in every interval
ShootStepRebuild == ShootVariant(k + 2, k + 1 < nk, TRUE, 1)

\* lines 197-200: one iteration of the shooting loop, interval k
ShootStep ==
    /\ pc = "shoot"
    /\ k < nk
    /\ LET r == integratorCall(xk[k + 1], uk[k + 1])
           xk_end == r[1]
           Jk == r[2]
       IN  /\ J' = Add(J, Jk)
           /\ eq' = IF k + 1 < nk
                      THEN Append(eq, MX(Sub(xk_end, xk[k + 2]), nx))
                      ELSE eq
           /\ calls' = Append(calls, [fn |-> integrator,
                                      args |-> <<xk[k + 1], uk[k + 1]>>])
    /\ k' = k + 1
    /\ UNCHANGED <<pc, err, cfgVars, dt, rkVars, integrator, builds,
                   layoutVars, nlpVars, solVars>>

\* lines 205-213: the NLP function and the solver inputs
FormNLP ==
    /\ pc = "shoot"
    /\ k = nk
    /\ g' = vertcatMX(eq)
    /\ lbg' = [i \in 1..Len(vertcatMX(eq)) |-> 0]
    /\ ubg' = [i \in 1..Len(vertcatMX(eq)) |-> 0]
    /\ pc' = "l215"
    /\ UNCHANGED <<err, cfgVars, dt, rkVars, integrator, builds, layoutVars,
                   k, shootVars, solVars>>

\* a vector of n entries returned by the solver
SolverOutput(seed, n) == [p \in 1..n |-> 100 * seed + p]

\* lines 215-217: solver.evaluate(); v_opt = solver.getOutput("x")
Solve ==
    /\ pc = "l215"
    /\ \E seed \in 0..MaxSeed : v_opt' = SolverOutput(seed, Len(v))
    /\ pc' = "l218"
    /\ UNCHANGED <<err, cfgVars, dt, rkVars, integrator, builds, layoutVars,
                   k, shootVars, nlpVars, x0_opt, x1_opt, u_opt>>

\* v_opt[[ind[k][c] for k in range(n)]]
Gather(vec, ind, c, n) == [i \in 1..n |-> At(vec, ind[i][c + 1])]

\* variant of Extract: the control samples are read through the state ranges
ExtractControlFromState ==
    /\ pc = "l218"
    /\ x0_opt' = Gather(v_opt, vind.x, 0, nk + 1)
    /\ IF nx < 2
         THEN Raise("IndexError") /\ UNCHANGED <<x1_opt, u_opt>>
         ELSE /\ x1_opt' = Gather(v_opt, vind.x, 1, nk + 1)
              /\ u_opt' = Gather(v_opt, vind.x, 0, nk)
              /\ pc' = "done"
              /\ UNCHANGED err
    /\ UNCHANGED <<cfgVars, dt, rkVars, integrator, builds, layoutVars, k,
                   shootVars, nlpVars, v_opt>>

\* lines 218-220: x0_opt, x1_opt, u_opt
Extract ==
    /\ pc = "l218"
    /\ x0_opt' = Gather(v_opt, vind.x, 0, nk + 1)
    /\ IF nx < 2
         THEN Raise("IndexError") /\ UNCHANGED <<x1_opt, u_opt>>
         ELSE /\ x1_opt' = Gather(v_opt, vind.x, 1, nk + 1)
              /\ u_opt' = Gather(v_opt, vind.u, 0, nk)
              /\ pc' = "done"
              /\ UNCHANGED err
    /\ UNCHANGED <<cfgVars, dt, rkVars, integrator, builds, layoutVars, k,
                   shootVars, nlpVars, v_opt>>

Next ==
    \/ SetDt
    \/ IntegratorInit
    \/ RKStep
    \/ BuildIntegrator
    \/ Declare
    \/ LayoutStep
    \/ LayoutEnd
    \/ Concatenate
    \/ InitialCondition
    \/ ShootStep
    \/ FormNLP
    \/ Solve
    \/ Extract


Spec == Init /\ [][Next]_vars
\* ---------------------------------------------------------------- stages
\* the layout of lines 170-187 is complete
LayoutDone == pc \in {"l190", "shoot", "l215", "l218", "done"} \/ err = "IndexError"
\* the NLP of lines 190-213 is assembled
Assembled == pc \in {"l215", "l218", "done"} \/ err = "IndexError"
\* the integrator of lines 136-151 exists
IntegratorBuilt == builds > 0

\* the index ranges recorded in vind, as <<kind, range>> blocks
IndexBlocks ==
    {<<"x", vind.x[i]>> : i \in 1..Len(vind.x)} \cup
    {<<"u", vind.u[i]>> : i \in 1..Len(vind.u)}
Contiguous(r) == \A m \in 1..(Len(r) - 1) : r[m + 1] = r[m] + 1
Covers(r, p) == \E m \in 1..Len(r) : r[m] = p

\* C1: once the decision-vector layout is built, nv = (nk+1)*nx + nk*nu,
\* the index map holds nk+1 state ranges of length nx and nk control ranges
\* of length nu, every range is contiguous, and every position of [0, nv) lies
\* in exactly one range (the ranges are disjoint and cover [0, nv)).
C1_LayoutInvariant ==
    LayoutDone =>
        /\ nk >= 1
        /\ nv = (nk + 1) * nx + nk * nu
        /\ Len(v) = nv
        /\ Len(vind.x) = nk + 1
        /\ Len(vind.u) = nk
        /\ \A i \in 1..Len(vind.x) : Len(vind.x[i]) = nx /\ Contiguous(vind.x[i])
        /\ \A i \in 1..Len(vind.u) : Len(vind.u[i]) = nu /\ Contiguous(vind.u[i])
        /\ Cardinality(IndexBlocks) = 2 * nk + 1
        /\ \A b \in IndexBlocks : \A m \in 1..Len(b[2]) : b[2][m] \in 0..(nv - 1)
        /\ \A p \in 0..(nv - 1) :
              Cardinality({b \in IndexBlocks : Covers(b[2], p)}) = 1

C1_Witness == pc = "l190" /\ nk = 3 /\ nx = 2 /\ nu = 2

\* the continuity constraint of interval kk: x_end(kk) - x_block[kk+1]
Continuity(kk) == Sub(integratorCall(xk[kk + 1], uk[kk + 1])[1], xk[kk + 2])
InConstraints(e) == \E i \in 1..Len(eq) : eq[i].e = e

\* C2 as stated: for every interval k in 0..nk-1 the assembled constraint
\* list contains x_end(k) - x_block[k+1], the last interval included.
C2_Original ==
    Assembled => \A kk \in 0..(nk - 1) : InConstraints(Continuity(kk))

\* C2 amended: the assembled constraint list is the initial-condition
\* residual followed by x_end(k) - x_block[k+1] for k in 0..nk-2 only; the
\* end state of the last interval (k = nk-1) is not constrained against the
\* trailing terminal-state block x_block[nk].
C2_Amended ==
    Assembled =>
        /\ Len(eq) = nk
        /\ eq[1].e = init_fcn(xk[1])[1]
        /\ \A kk \in 0..(nk - 2) : eq[kk + 2].e = Continuity(kk)
        /\ ~InConstraints(Continuity(nk - 1))

C2_Witness == pc = "l215" /\ nk = 3 /\ InConstraints(Continuity(1))

\* C3: with an initial-condition residual of nx components the assembled NLP
\* has exactly nx*nk scalar constraints (one initial-condition block and nk-1
\* continuity blocks, each of nx rows), lbg and ubg have one entry per
\* constraint, and every entry of both is 0.
C3_ConstraintCount ==
    (Assembled /\ nI = nx) =>
        /\ Len(g) = nx * nk
        /\ Len(eq) = 1 + (nk - 1)
        /\ \A i \in 1..Len(eq) : eq[i].n = nx
        /\ Len(lbg) = Len(g)
        /\ Len(ubg) = Len(g)
        /\ \A i \in 1..Len(g) : lbg[i] = 0 /\ ubg[i] = 0

C3_Witness == pc = "l218" /\ nI = nx /\ nx = 2 /\ nk = 3 /\ Len(g) = 6

\* C4 as stated: nk = 0 is rejected with a ConfigurationError before dt is
\* computed, before the interval map is built and before any decision-vector
\* block or constraint is created.
C4_Original ==
    (nk = 0 /\ pc # "l106") =>
        /\ pc = "error"
        /\ err = "ConfigurationError"
        /\ dt = Unbound
        /\ integrator = NoFunction /\ builds = 0 /\ odeCalls = <<>>
        /\ v = <<>> /\ eq = <<>> /\ calls = <<>>

\* C4 amended: nk = 0 ends the script with the ZeroDivisionError raised by
\* the division dt = tf/nk itself; dt is never bound, and this happens before
\* the interval map is built and before any decision-vector block or
\* constraint is created.
C4_Amended ==
    (nk = 0 /\ pc # "l106") =>
        /\ pc = "error"
        /\ err = "ZeroDivisionError"
        /\ dt = Unbound /\ h = Unbound
        /\ integrator = NoFunction /\ builds = 0 /\ odeCalls = <<>>
        /\ xk = <<>> /\ uk = <<>> /\ v = <<>> /\ nv = 0 /\ vind = NoVind
        /\ eq = <<>> /\ calls = <<>> /\ J = Unbound

C4_Witness == nk = 0 /\ pc = "error" /\ err = "ZeroDivisionError"

\* C5: in the assembled NLP lbv, ubv and v0 have length nv; at the positions
\* of every state block (the trailing one included) they hold the components
\* of lbx, ubx, x0, and at the positions of every control block the
\* components of lbu, ubu, u0.
C5_BoundsAndGuess ==
    Assembled =>
        /\ Len(lbv) = nv /\ Len(ubv) = nv /\ Len(v0) = nv
        /\ Len(vind.x) = nk + 1 /\ Len(vind.u) = nk
        /\ \A kk \in 1..(nk + 1) : \A i \in 1..nx :
              /\ At(lbv, vind.x[kk][i]) = lbx[i]
              /\ At(ubv, vind.x[kk][i]) = ubx[i]
              /\ At(v0, vind.x[kk][i]) = x0[i]
        /\ \A kk \in 1..nk : \A i \in 1..nu :
              /\ At(lbv, vind.u[kk][i]) = lbu[i]
              /\ At(ubv, vind.u[kk][i]) = ubu[i]
              /\ At(v0, vind.u[kk][i]) = u0[i]

C5_Witness == pc = "l215" /\ nk = 2 /\ nx = 3 /\ nu = 2 /\ Len(lbv) = 13

\* the samples of component c over the first n blocks of index list ind
Samples(ind, c, n) == [i \in 1..n |-> At(v_opt, ind[i][c + 1])]
\* what the extractor returns for state component i / control component jj
XOpt(i) == IF i = 0 THEN x0_opt ELSE IF i = 1 THEN x1_opt ELSE <<>>
UOpt(jj) == IF jj = 0 THEN u_opt ELSE <<>>
ExtractRan == pc = "done" \/ err = "IndexError"
StateValues == {At(v_opt, vind.x[kk][i]) : kk \in 1..Len(vind.x), i \in 1..nx}
ControlValues == {At(v_opt, vind.u[kk][i]) : kk \in 1..Len(vind.u), i \in 1..nu}
SeqValues(q) == {q[i] : i \in 1..Len(q)}

\* C6 as stated: for each state component i in 0..nx-1 the extractor yields
\* the nk+1 samples v*[vind.x[k][i]], and for each control component j in
\* 0..nu-1 the nk samples v*[vind.u[k][j]].
C6_Original ==
    ExtractRan =>
        /\ pc = "done"
        /\ \A i \in 0..(nx - 1) : XOpt(i) = Samples(vind.x, i, nk + 1)
        /\ \A jj \in 0..(nu - 1) : UOpt(jj) = Samples(vind.u, jj, nk)

\* C6 amended: the extractor yields the nk+1 samples v*[vind.x[k][i]] for
\* the state components i = 0 and i = 1 only and the nk samples
\* v*[vind.u[k][0]] for control component 0 only; no state position is
\* returned as a control sample or vice versa; with nx = 1 it yields state
\* component 0 and then fails with IndexError.
C6_Amended ==
    /\ pc = "done" =>
          /\ nx >= 2
          /\ x0_opt = Samples(vind.x, 0, nk + 1)
          /\ x1_opt = Samples(vind.x, 1, nk + 1)
          /\ u_opt = Samples(vind.u, 0, nk)
          /\ SeqValues(x0_opt) \cap ControlValues = {}
          /\ SeqValues(x1_opt) \cap ControlValues = {}
          /\ SeqValues(u_opt) \cap StateValues = {}
    /\ err = "IndexError" =>
          /\ nx = 1
          /\ x0_opt = Samples(vind.x, 0, nk + 1)
          /\ x1_opt = <<>> /\ u_opt = <<>>

C6_Witness == pc = "done" /\ nx = 3 /\ nu = 2 /\ nk = 3 /\ Len(u_opt) = 3

\* the cost output of IntervalMap(x_block[kk], u_block[kk])
IntervalCost(kk) == Call("integrator", <<xk[kk + 1], uk[kk + 1]>>, 1)
RECURSIVE SumCost(_)
SumCost(n) == IF n = 0 THEN Num(0) ELSE Add(SumCost(n - 1), IntervalCost(n - 1))

\* C7: J is 0 before the first interval is transcribed, and after the
\* transcription J is 0 plus the cost outputs of
\* IntervalMap(x_block[k], u_block[k]) for k = 0..nk-1, each interval (the
\* last included) exactly once, in nk applications of the map.
C7_Objective ==
    /\ (pc = "shoot" /\ k = 0) => J = Num(0)
    /\ pc = "shoot" => J = SumCost(k)
    /\ Assembled =>
          /\ J = SumCost(nk)
          /\ Len(calls) = nk
          /\ \A i \in 1..nk : calls[i].args = <<xk[i], uk[i]>>

C7_Witness == pc = "l215" /\ nk = 3 /\ J = SumCost(3)

\* state and accumulator after n RK4 sub-steps from <<x_start, 0>>
RECURSIVE SubSteps(_)
SubSteps(n) ==
    IF n = 0 THEN [x |-> xkSym, l |-> Num(0)]
    ELSE LET prev == SubSteps(n - 1)
             r == RK4Body(prev.x, prev.l, ukSym, Div(dt, Num(nj)))
         IN  [x |-> r.x, l |-> r.l]

\* C9: the interval map is nj RK4 sub-steps of step h = dt/nj in sequence:
\* the first from x_start and accumulator 0, each later one from the state
\* and accumulator of the one before, the same control in all 4*nj
\* right-hand-side evaluations, and the pair returned is the state and
\* accumulator after the nj-th sub-step.
C9_SubSteps ==
    /\ pc = "rk" =>
          /\ h = Div(dt, Num(nj))
          /\ xkj = SubSteps(j).x /\ xkj_L = SubSteps(j).l
          /\ Len(odeCalls) = 4 * j
    /\ IntegratorBuilt =>
          /\ j = nj
          /\ integrator.in = <<xkSym, ukSym>>
          /\ integrator.out = <<SubSteps(nj).x, SubSteps(nj).l>>
          /\ Len(odeCalls) = 4 * nj
          /\ \A i \in 1..Len(odeCalls) : odeCalls[i][2] = ukSym
          /\ \A m \in 0..(nj - 1) : odeCalls[4 * m + 1][1] = SubSteps(m).x

C9_Witness == pc = "l167" /\ nj = 2 /\ Len(odeCalls) = 8

\* C10 (state part): the map is built at most once, it exists before the
\* first interval is transcribed, every application used the map as it is
\* now, and after the transcription there were nk applications, one per
\* interval.
C10_State ==
    /\ builds <= 1
    /\ pc \in {"l167", "layout", "l187", "l190", "shoot", "l215", "l218", "done"}
          => builds = 1 /\ integrator # NoFunction
    /\ calls # <<>> => builds = 1
    /\ \A i \in 1..Len(calls) :
          calls[i].fn = integrator /\ calls[i].args = <<xk[i], uk[i]>>
    /\ Len(calls) <= nk
    /\ Assembled => Len(calls) = nk

\* C10: during one solve the interval map is built exactly once, before the
\* first interval is transcribed, applied once per interval (nk in total),
\* and never rebuilt or modified once built.
C10_BuiltOnce ==
    /\ []C10_State
    /\ [][IntegratorBuilt => (integrator' = integrator /\ builds' = builds)]_vars

C10_Witness == pc = "done" /\ nk = 3 /\ Len(calls) = 3 /\ builds = 1
====
